---- MODULE Spec2Model ----
(***************************************************************************)
(* Model of src-tauri/src/main.rs: the download_and_open_file command, the *)
(* open_file platform dispatch it ends with, and the AppState built by     *)
(* main.  Each await point and each `?` of download_and_open_file is one   *)
(* step of a call; several calls may be in flight at once (tauri runs each *)
(* async command as its own task).  The file system, the HTTP server and   *)
(* the spawned opener processes are the environment.                       *)
(***************************************************************************)
EXTENDS Integers, Sequences, FiniteSets, TLC

\* ---------------------------------------------------------------- bounds
NumCalls == 2        \* invocations of download_and_open_file that may be in flight
MaxBody == 2         \* longest response body, in bytes

Calls == 1..NumCalls

\* ------------------------------------------------------------ path model
\* A path is the sequence of its components; "/" is the root component.
IsAbsolute(p) == Len(p) > 0 /\ p[1] = "/"

\* Path::join: an absolute argument replaces the base, a relative one is appended.
join(base, p) == IF IsAbsolute(p) THEN p ELSE base \o p

Parent(p) == SubSeq(p, 1, Len(p) - 1)

RECURSIVE JoinSep(_)
JoinSep(p) ==
  IF Len(p) = 0 THEN ""
  ELSE IF Len(p) = 1 THEN p[1]
  ELSE p[1] \o "/" \o JoinSep(Tail(p))

\* file_path.to_string_lossy().to_string(): the components separated by "/".
to_string_lossy(p) == IF IsAbsolute(p) THEN "/" \o JoinSep(Tail(p)) ELSE JoinSep(p)

\* std::env::temp_dir() of the host.
env_temp_dir == <<"/", "tmp">>

\* main: AppState { temp_dir: std::env::temp_dir().join("r2-manager") }
AppStateInit == [temp_dir |-> join(env_temp_dir, <<"r2-manager">>)]

\* file_name arguments the UI may pass: two plain names and an absolute path.
FileNames == { <<"a.txt">>, <<"b.txt">>, <<"/", "tmp", "r2-manager", "a.txt">> }

Paths == { join(AppStateInit.temp_dir, n) : n \in FileNames }

\* ------------------------------------------------------------ file model
\* A path on disk: whether a file is there, and its bytes.
NoFile == [exists |-> FALSE, data |-> <<>>]
FileOf(d) == [exists |-> TRUE, data |-> d]
NoBytes == <<>>
NoName == <<>>

\* Response bodies the server of call c may return: every length up to
\* MaxBody, each byte marked with c so that its origin can be told on disk.
Bodies(c) == { [i \in 1..n |-> c] : n \in 0..MaxBody }

\* Content of a file left by an earlier session, longer than every body.
OldContent == FileOf([i \in 1..(MaxBody + 1) |-> 9])

Max(a, b) == IF a >= b THEN a ELSE b

\* write(2) through a handle at offset off: bytes land at off+1.., a gap
\* between the end of the file and off reads as zero bytes.
WriteAt(content, off, chunk) ==
  [i \in 1..Max(Len(content), off + Len(chunk)) |->
     IF i > off /\ i <= off + Len(chunk) THEN chunk[i - off]
     ELSE IF i <= Len(content) THEN content[i]
     ELSE 0]

\* --------------------------------------------------------- error strings
\* format!("<prefix>: {}", e)
Fmt(prefix, e) == prefix \o ": " \o e

IoErrors == { "os error" }

Platforms == { "windows", "macos", "linux", "other" }

\* Variant: a platform outside the three is reported as an error.
open_file_UnsupportedIsError(os, spawnOk, e) ==
  IF os \in { "windows", "macos", "linux" } /\ spawnOk
  THEN [ok |-> TRUE, spawned |-> TRUE, val |-> ""]
  ELSE [ok |-> FALSE, spawned |-> FALSE, val |-> Fmt("Failed to open file", e)]

\* open_file: the three #[cfg(target_os = ...)] blocks, then Ok(()).
\* spawnOk says whether Command::spawn succeeds when it is reached.
open_file(os, spawnOk, e) ==
  IF os \in { "windows", "macos", "linux" }
  THEN IF spawnOk THEN [ok |-> TRUE, spawned |-> TRUE, val |-> ""]
       ELSE [ok |-> FALSE, spawned |-> FALSE, val |-> Fmt("Failed to open file", e)]
  ELSE [ok |-> TRUE, spawned |-> FALSE, val |-> ""]

\* ------------------------------------------------------------------ state
VARIABLES
  platform,    \* target_os the binary was built for
  state,       \* AppState managed by tauri
  dirExists,   \* whether state.temp_dir is a directory on disk
  fs,          \* content of each destination path, or NoFile
  pc,          \* position of each call
  file_name,   \* argument of each call
  responsive,  \* whether the call's server ever answers the request
  bytes,       \* buffered response body of each call
  pos,         \* offset of each call's file handle
  result,      \* value returned by each call
  opener,      \* process spawned by each call's open_file
  before,      \* calls that had returned when this call was invoked
  steps,       \* steps each call has executed, in order
  lastWriter   \* per path, the call whose write_all completed last

vars == <<platform, state, dirExists, fs, pc, file_name, responsive, bytes,
          pos, result, opener, before, steps, lastWriter>>

NoResult == [ok |-> FALSE, val |-> ""]
Ok(v) == [ok |-> TRUE, val |-> v]
Err(v) == [ok |-> FALSE, val |-> v]

\* let file_path = state.temp_dir.join(&file_name);
file_path(c) == join(state.temp_dir, file_name[c])

Init ==
  /\ platform \in Platforms
  /\ state = AppStateInit
  /\ dirExists \in BOOLEAN
  /\ fs \in [Paths -> {NoFile, OldContent}]
  /\ (~dirExists => \A p \in Paths : fs[p] = NoFile)
  /\ pc = [c \in Calls |-> "idle"]
  /\ file_name = [c \in Calls |-> NoName]
  /\ responsive = [c \in Calls |-> TRUE]
  /\ bytes = [c \in Calls |-> NoBytes]
  /\ pos = [c \in Calls |-> 0]
  /\ result = [c \in Calls |-> NoResult]
  /\ opener = [c \in Calls |-> "none"]
  /\ before = [c \in Calls |-> {}]
  /\ steps = [c \in Calls |-> <<>>]
  /\ lastWriter = [p \in Paths |-> 0]

\* A `?` that takes the error branch: the call returns Err and its locals are dropped.
Fail(c, step, msg) ==
  /\ pc' = [pc EXCEPT ![c] = "done"]
  /\ result' = [result EXCEPT ![c] = Err(msg)]
  /\ steps' = [steps EXCEPT ![c] = Append(@, step)]
  /\ bytes' = [bytes EXCEPT ![c] = NoBytes]
  /\ pos' = [pos EXCEPT ![c] = 0]

\* The UI invokes the command.  Calls are interchangeable, so they are
\* taken in order of their number.
Invoke(c) ==
  /\ pc[c] = "idle"
  /\ \A d \in Calls : d < c => pc[d] # "idle"
  /\ \E n \in FileNames, r \in BOOLEAN :
       /\ file_name' = [file_name EXCEPT ![c] = n]
       /\ responsive' = [responsive EXCEPT ![c] = r]
  /\ before' = [before EXCEPT ![c] = { d \in Calls : pc[d] = "done" }]
  /\ pc' = [pc EXCEPT ![c] = "mkdir"]
  /\ UNCHANGED <<platform, state, dirExists, fs, bytes, pos, result, opener,
                 steps, lastWriter>>

\* Variant: the directory is not created.
CreateDirAllOk_Skipped(c) ==
  /\ pc[c] = "mkdir"
  /\ pc' = [pc EXCEPT ![c] = "send"]
  /\ steps' = [steps EXCEPT ![c] = Append(@, "mkdir")]
  /\ UNCHANGED <<platform, state, dirExists, fs, file_name, responsive, bytes,
                 pos, result, opener, before, lastWriter>>

\* fs::create_dir_all(&state.temp_dir) returns Ok, the directory being
\* created or already there.
CreateDirAllOk(c) ==
  /\ pc[c] = "mkdir"
  /\ dirExists' = TRUE
  /\ pc' = [pc EXCEPT ![c] = "send"]
  /\ steps' = [steps EXCEPT ![c] = Append(@, "mkdir")]
  /\ UNCHANGED <<platform, state, fs, file_name, responsive, bytes, pos,
                 result, opener, before, lastWriter>>

\* fs::create_dir_all fails (it cannot when the directory is already there).
CreateDirAllErr(c) ==
  /\ pc[c] = "mkdir"
  /\ ~dirExists
  /\ \E e \in IoErrors : Fail(c, "mkdir", Fmt("Failed to create temp directory", e))
  /\ UNCHANGED <<platform, state, dirExists, fs, file_name, responsive,
                 opener, before, lastWriter>>

\* client.get(&url).send().await resolves with a response.
SendOk(c) ==
  /\ pc[c] = "send"
  /\ responsive[c]
  /\ pc' = [pc EXCEPT ![c] = "recv"]
  /\ steps' = [steps EXCEPT ![c] = Append(@, "send")]
  /\ UNCHANGED <<platform, state, dirExists, fs, file_name, responsive, bytes,
                 pos, result, opener, before, lastWriter>>

\* Variant: the request gives up by itself when the server stays silent.
SendErr_Timeout(c) ==
  /\ pc[c] = "send"
  /\ \E e \in IoErrors : Fail(c, "send", Fmt("Failed to download file", e))
  /\ UNCHANGED <<platform, state, dirExists, fs, file_name, responsive,
                 opener, before, lastWriter>>

\* client.get(&url).send().await resolves with an error.
SendErr(c) ==
  /\ pc[c] = "send"
  /\ responsive[c]
  /\ \E e \in IoErrors : Fail(c, "send", Fmt("Failed to download file", e))
  /\ UNCHANGED <<platform, state, dirExists, fs, file_name, responsive,
                 opener, before, lastWriter>>

\* response.bytes().await resolves with the whole body.
BytesOk(c) ==
  /\ pc[c] = "recv"
  /\ \E b \in Bodies(c) : bytes' = [bytes EXCEPT ![c] = b]
  /\ pc' = [pc EXCEPT ![c] = "create"]
  /\ steps' = [steps EXCEPT ![c] = Append(@, "recv")]
  /\ UNCHANGED <<platform, state, dirExists, fs, file_name, responsive, pos,
                 result, opener, before, lastWriter>>

\* Variant: the body is streamed to the file while it is read, so a read
\* failure leaves the part received so far on disk.
BytesErr_Streamed(c) ==
  /\ pc[c] = "recv"
  /\ fs' = [fs EXCEPT ![file_path(c)] = FileOf(<<c>>)]
  /\ \E e \in IoErrors : Fail(c, "recv", Fmt("Failed to read response", e))
  /\ UNCHANGED <<platform, state, dirExists, file_name, responsive,
                 opener, before, lastWriter>>

\* response.bytes().await fails part-way through the body.
BytesErr(c) ==
  /\ pc[c] = "recv"
  /\ \E e \in IoErrors : Fail(c, "recv", Fmt("Failed to read response", e))
  /\ UNCHANGED <<platform, state, dirExists, fs, file_name, responsive,
                 opener, before, lastWriter>>

\* Variant: the file is opened for writing without being truncated.
FileCreateOk_NoTruncate(c) ==
  /\ pc[c] = "create"
  /\ (Parent(file_path(c)) = state.temp_dir => dirExists)
  /\ fs' = [fs EXCEPT ![file_path(c)] = FileOf(@.data)]
  /\ pos' = [pos EXCEPT ![c] = 0]
  /\ pc' = [pc EXCEPT ![c] = "write"]
  /\ steps' = [steps EXCEPT ![c] = Append(@, "create")]
  /\ UNCHANGED <<platform, state, dirExists, file_name, responsive, bytes,
                 result, opener, before, lastWriter>>

\* File::create(&file_path).await: creates the file or truncates it to
\* length zero, and yields a handle at offset 0.
FileCreateOk(c) ==
  /\ pc[c] = "create"
  /\ (Parent(file_path(c)) = state.temp_dir => dirExists)
  /\ fs' = [fs EXCEPT ![file_path(c)] = FileOf(<<>>)]
  /\ pos' = [pos EXCEPT ![c] = 0]
  /\ pc' = [pc EXCEPT ![c] = "write"]
  /\ steps' = [steps EXCEPT ![c] = Append(@, "create")]
  /\ UNCHANGED <<platform, state, dirExists, file_name, responsive, bytes,
                 result, opener, before, lastWriter>>

\* File::create fails; nothing on disk changes.
FileCreateErr(c) ==
  /\ pc[c] = "create"
  /\ \E e \in IoErrors : Fail(c, "create", Fmt("Failed to create file", e))
  /\ UNCHANGED <<platform, state, dirExists, fs, file_name, responsive,
                 opener, before, lastWriter>>

\* file.write_all(&bytes).await: a loop of writes through the handle; each
\* turn puts the next n bytes at the handle's offset.  With nothing left to
\* write it returns Ok.
WriteAll(c) ==
  /\ pc[c] = "write"
  /\ LET left == Len(bytes[c]) - pos[c]
         p == file_path(c)
     IN IF left = 0
        THEN /\ pc' = [pc EXCEPT ![c] = "flush"]
             /\ steps' = [steps EXCEPT ![c] = Append(@, "write")]
             /\ lastWriter' = [lastWriter EXCEPT ![p] = IF Len(bytes[c]) > 0 THEN c ELSE @]
             /\ UNCHANGED <<fs, pos>>
        ELSE /\ \E n \in 1..left :
                  /\ fs' = [fs EXCEPT ![p] =
                              FileOf(WriteAt(@.data, pos[c],
                                             SubSeq(bytes[c], pos[c] + 1, pos[c] + n)))]
                  /\ pos' = [pos EXCEPT ![c] = @ + n]
             /\ UNCHANGED <<pc, steps, lastWriter>>
  /\ UNCHANGED <<platform, state, dirExists, file_name, responsive, bytes,
                 result, opener, before>>

\* Variant: a write failure is reported with the flush message.
WriteAllErr_FlushMessage(c) ==
  /\ pc[c] = "write"
  /\ pos[c] < Len(bytes[c])
  /\ \E e \in IoErrors : Fail(c, "write", Fmt("Failed to flush file", e))
  /\ UNCHANGED <<platform, state, dirExists, fs, file_name, responsive,
                 opener, before, lastWriter>>

\* A write of the loop fails; what was written before stays in the file.
WriteAllErr(c) ==
  /\ pc[c] = "write"
  /\ pos[c] < Len(bytes[c])
  /\ \E e \in IoErrors : Fail(c, "write", Fmt("Failed to write file", e))
  /\ UNCHANGED <<platform, state, dirExists, fs, file_name, responsive,
                 opener, before, lastWriter>>

\* file.flush().await returns Ok.
FlushOk(c) ==
  /\ pc[c] = "flush"
  /\ pc' = [pc EXCEPT ![c] = "open"]
  /\ steps' = [steps EXCEPT ![c] = Append(@, "flush")]
  /\ UNCHANGED <<platform, state, dirExists, fs, file_name, responsive, bytes,
                 pos, result, opener, before, lastWriter>>

\* Variant: a failed flush writes the body again instead of returning.
FlushErr_Retry(c) ==
  /\ pc[c] = "flush"
  /\ pc' = [pc EXCEPT ![c] = "write"]
  /\ pos' = [pos EXCEPT ![c] = 0]
  /\ steps' = [steps EXCEPT ![c] = Append(@, "flush")]
  /\ UNCHANGED <<platform, state, dirExists, fs, file_name, responsive, bytes,
                 result, opener, before, lastWriter>>

\* file.flush().await fails.
FlushErr(c) ==
  /\ pc[c] = "flush"
  /\ \E e \in IoErrors : Fail(c, "flush", Fmt("Failed to flush file", e))
  /\ UNCHANGED <<platform, state, dirExists, fs, file_name, responsive,
                 opener, before, lastWriter>>

\* open_file(&file_path)?; Ok(file_path.to_string_lossy().to_string())
\* open_file returns as soon as the process is spawned.
OpenAndReturn(c) ==
  /\ pc[c] = "open"
  /\ \E spawnOk \in BOOLEAN, e \in IoErrors :
       LET r == open_file(platform, spawnOk, e)
       IN /\ opener' = [opener EXCEPT ![c] = IF r.spawned THEN "running" ELSE @]
          /\ result' = [result EXCEPT ![c] =
                          IF r.ok THEN Ok(to_string_lossy(file_path(c))) ELSE Err(r.val)]
          /\ bytes' = [bytes EXCEPT ![c] = IF r.ok THEN @ ELSE NoBytes]
  /\ pos' = [pos EXCEPT ![c] = 0]
  /\ pc' = [pc EXCEPT ![c] = "done"]
  /\ steps' = [steps EXCEPT ![c] = Append(@, "open")]
  /\ UNCHANGED <<platform, state, dirExists, fs, file_name, responsive,
                 before, lastWriter>>

\* The opener process, detached from the call, ends on its own.
OpenerExit(c) ==
  /\ opener[c] = "running"
  /\ opener' = [opener EXCEPT ![c] = "exited"]
  /\ UNCHANGED <<platform, state, dirExists, fs, pc, file_name, responsive,
                 bytes, pos, result, before, steps, lastWriter>>

\* The steps of a call that the async runtime and the OS drive to completion.
Step(c) ==
  \/ CreateDirAllOk(c) \/ CreateDirAllErr(c)
  \/ SendOk(c) \/ SendErr(c)
  \/ BytesOk(c) \/ BytesErr(c)
  \/ FileCreateOk(c) \/ FileCreateErr(c)
  \/ WriteAll(c) \/ WriteAllErr(c)
  \/ FlushOk(c) \/ FlushErr(c)
  \/ OpenAndReturn(c)

Next ==
  \E c \in Calls :
    \/ Invoke(c)
    \/ CreateDirAllOk(c)
    \/ CreateDirAllErr(c)
    \/ SendOk(c)
    \/ SendErr(c)
    \/ BytesOk(c)
    \/ BytesErr(c)
    \/ FileCreateOk(c)
    \/ FileCreateErr(c)
    \/ WriteAll(c)
    \/ WriteAllErr(c)
    \/ FlushOk(c)
    \/ FlushErr(c)
    \/ OpenAndReturn(c)
    \/ OpenerExit(c)

Spec == Init /\ [][Next]_vars

\* Every operation a call awaits resolves once it can; the UI need not
\* invoke, an opener need not exit, an unresponsive server never answers.
FairSpec == Spec /\ \A c \in Calls : WF_vars(Step(c))

\* ------------------------------------------------------------ vocabulary
Range(q) == { q[i] : i \in 1..Len(q) }

IsPrefix(q, r) == Len(q) <= Len(r) /\ SubSeq(r, 1, Len(q)) = q

\* Steps of download_and_open_file in the order of the source text.
StepOrder == <<"mkdir", "send", "recv", "create", "write", "flush", "open">>

Returned(c) == pc[c] = "done"
ReturnedOk(c) == pc[c] = "done" /\ result[c].ok
ReturnedErr(c) == pc[c] = "done" /\ ~result[c].ok

\* The step whose error the call returned.
FailedAt(c) == IF ReturnedErr(c) THEN steps[c][Len(steps[c])] ELSE "none"

\* The call has opened (created or truncated) its destination file.
Created(c) == "create" \in Range(steps[c]) /\ FailedAt(c) # "create"

\* The destination of a call, from its argument and the managed state.
Dest(c) == join(state.temp_dir, file_name[c])

\* Every other call that opened the file at c's destination had returned
\* before c was invoked.
NoOtherWriterOfPath(c) ==
  \A d \in Calls \ {c} : (Created(d) /\ Dest(d) = Dest(c)) => d \in before[c]

\* Every other call that opened a file under c's file name had returned
\* before c was invoked.
NoOtherWriterOfName(c) ==
  \A d \in Calls \ {c} : (Created(d) /\ file_name[d] = file_name[c]) => d \in before[c]

\* The string of temp_dir joined with file_name.
JoinedString(c) ==
  IF IsAbsolute(file_name[c])
  THEN to_string_lossy(file_name[c])
  ELSE to_string_lossy(state.temp_dir) \o "/" \o to_string_lossy(file_name[c])

HoldsBody(c) == fs[Dest(c)].exists /\ fs[Dest(c)].data = bytes[c]

\* ------------------------------------------------------------------- C1
\* C1: at the moment a call returns Ok it returns the string of temp_dir
\* joined with file_name and, when no other call writes the same file name,
\* the file there exists and holds exactly the call's response body.
C1_ReturnsPathOfWrittenBody ==
  [][ \A c \in Calls :
        (pc[c] = "open" /\ ReturnedOk(c)') =>
          /\ result'[c].val = JoinedString(c)'
          /\ NoOtherWriterOfName(c)' => HoldsBody(c)' ]_vars

\* What does hold of C1: with the side condition on the destination path
\* instead of the file name, the file of a call that returned Ok holds
\* exactly its body.
C1_HoldsPerDestination ==
  \A c \in Calls :
    ReturnedOk(c) =>
      /\ result[c].val = JoinedString(c)
      /\ NoOtherWriterOfPath(c) => HoldsBody(c)

\* ------------------------------------------------------------------- C4
\* C4: when calls with the same file name overlap and all have returned Ok,
\* the file holds the whole body of the call whose write completed last
\* (stated for non-empty bodies, where each call does write).
C4_LastWriteWins ==
  \A c \in Calls, d \in Calls :
    ( /\ c # d
      /\ file_name[c] = file_name[d]
      /\ ReturnedOk(c) /\ ReturnedOk(d)
      /\ c \notin before[d] /\ d \notin before[c]
      /\ \A x \in Calls : Dest(x) = Dest(c) => ReturnedOk(x)
      /\ bytes[c] # <<>> /\ bytes[d] # <<>>
      /\ lastWriter[Dest(c)] = c )
    => HoldsBody(c)

\* ------------------------------------------------------------------- C5
\* C5: after two successful calls in sequence with the same file name the
\* file holds exactly the second body, nothing of a longer first body is
\* left, and an existing file never keeps File::create from succeeding.
C5_SecondOverwritesFirst ==
  /\ \A c \in Calls, d \in Calls :
       ( /\ c \in before[d]
         /\ file_name[c] = file_name[d]
         /\ ReturnedOk(c) /\ ReturnedOk(d)
         /\ NoOtherWriterOfPath(d) )
       => /\ fs[Dest(d)].exists
          /\ Len(fs[Dest(d)].data) = Len(bytes[d])
          /\ fs[Dest(d)].data = bytes[d]
  /\ \A c \in Calls :
       (pc[c] = "create" /\ fs[Dest(c)].exists) => ENABLED FileCreateOk(c)

\* Two successful calls in sequence, the first body longer than the second.
C5_Witness ==
  \E c \in Calls, d \in Calls :
    /\ c \in before[d]
    /\ file_name[c] = file_name[d]
    /\ ReturnedOk(c) /\ ReturnedOk(d)
    /\ Len(bytes[c]) > Len(bytes[d])

\* ------------------------------------------------------------------ C10
\* C10: once overlapping calls with pairwise distinct file names have all
\* returned, the file of each successful call holds exactly its own body.
C10_DistinctNamesIndependent ==
  \A c \in Calls :
    ( /\ ReturnedOk(c)
      /\ \A d \in Calls : pc[d] \in {"idle", "done"}
      /\ \A d \in Calls \ {c} :
           pc[d] # "idle" =>
             /\ file_name[d] # file_name[c]
             /\ d \notin before[c] /\ c \notin before[d] )
    => HoldsBody(c)

\* The step is one of call d's own.
StepOf(d) == pc'[d] # pc[d] \/ pos'[d] # pos[d]

\* What does hold of C10: among calls with pairwise distinct destination
\* paths no step of one call changes another call's file, each successful
\* call's file holds exactly its own body, and no call changes the shared
\* temp directory path.
C10_HoldsPerDestination ==
  /\ [](\A c \in Calls :
          ( /\ ReturnedOk(c)
            /\ \A d \in Calls \ {c} : pc[d] # "idle" => Dest(d) # Dest(c) )
          => HoldsBody(c))
  /\ [][ /\ state' = state
         /\ \A d \in Calls :
              (StepOf(d) /\ pc[d] # "idle") =>
                \A p \in Paths : p # Dest(d) => fs'[p] = fs[p] ]_vars

\* ------------------------------------------------------------------- C2
\* C2: a call whose request or body read failed returned an error string,
\* never opened or wrote its file and spawned no opener; the failing step
\* leaves every file as it was; no call opens its file before it has
\* buffered the whole body.
C2_NetworkFailureWritesNothing ==
  /\ [](\A c \in Calls :
          /\ FailedAt(c) \in {"send", "recv"} =>
               /\ result[c].val # ""
               /\ Range(steps[c]) \cap {"create", "write", "flush", "open"} = {}
               /\ opener[c] = "none"
          /\ Created(c) => "recv" \in Range(steps[c]))
  /\ [][ \A c \in Calls :
           (pc[c] \in {"send", "recv"} /\ pc'[c] = "done") =>
              fs' = fs /\ opener' = opener ]_vars

\* A body read failed while a file left earlier sits at the destination.
C2_Witness ==
  \E c \in Calls :
    /\ FailedAt(c) = "recv"
    /\ fs[Dest(c)] = OldContent

\* ------------------------------------------------------------------- C3
\* C3: the steps a call has executed are always an initial part of the order
\* mkdir, send, recv, create, write, flush, open, each at most once; a call
\* that failed has returned and executes nothing more; an opener exists only
\* after a successful flush and Ok only after all seven steps; the failing
\* step leaves the file as it was, created or partly written.
C3_LinearAbortNoRollback ==
  /\ [](\A c \in Calls :
          /\ IsPrefix(steps[c], StepOrder)
          /\ ReturnedOk(c) => steps[c] = StepOrder
          /\ opener[c] # "none" =>
               "flush" \in Range(steps[c]) /\ FailedAt(c) # "flush")
  /\ [][ \A c \in Calls :
           /\ pc[c] = "done" =>
                pc'[c] = "done" /\ steps'[c] = steps[c] /\ result'[c] = result[c]
           /\ (pc[c] # "done" /\ pc'[c] = "done" /\ ~result'[c].ok) => fs' = fs ]_vars

\* A write failed after part of the body had reached the file.
C3_Witness ==
  \E c \in Calls :
    /\ FailedAt(c) = "write"
    /\ fs[Dest(c)].exists
    /\ fs[Dest(c)].data = <<c>>

\* ------------------------------------------------------------------- C6
\* C6: directory creation is the first step of every call and can succeed
\* whether or not the directory is there; every call past it finds the
\* directory present; a call that failed at it did nothing else.
C6_DirectoryFirst ==
  \A c \in Calls :
    /\ steps[c] # <<>> => steps[c][1] = "mkdir"
    /\ pc[c] = "mkdir" => ENABLED CreateDirAllOk(c)
    /\ (pc[c] \notin {"idle", "mkdir"} /\ FailedAt(c) # "mkdir") => dirExists
    /\ FailedAt(c) = "mkdir" => steps[c] = <<"mkdir">> /\ ~Created(c)

\* The directory was missing (one call failed to create it) and a later
\* call created it and returned Ok.
C6_Witness ==
  \E c \in Calls, d \in Calls :
    /\ FailedAt(c) = "mkdir"
    /\ ReturnedOk(d)
    /\ fs[Dest(d)].exists

\* ------------------------------------------------------------------- C7
StartsWith(s, t) == Len(s) >= Len(t) /\ SubSeq(s, 1, Len(t)) = t

RECURSIVE ColonAt(_, _)
ColonAt(s, i) ==
  IF i + 1 > Len(s) THEN Len(s) + 1
  ELSE IF SubSeq(s, i, i + 1) = ": " THEN i
  ELSE ColonAt(s, i + 1)

\* The part of an error string before its first ": ".
MsgPrefix(s) == SubSeq(s, 1, ColonAt(s, 1) - 1)

\* C7: every error a call returns carries a message prefix; two calls
\* return the same prefix exactly when they failed at the same step, and no
\* step's message begins with another step's prefix.
C7_PrefixTellsStep ==
  \A c \in Calls, d \in Calls :
    (ReturnedErr(c) /\ ReturnedErr(d)) =>
      /\ FailedAt(c) \in Range(StepOrder)
      /\ MsgPrefix(result[c].val) # ""
      /\ Len(MsgPrefix(result[c].val)) < Len(result[c].val)
      /\ (MsgPrefix(result[c].val) = MsgPrefix(result[d].val)) <=> (FailedAt(c) = FailedAt(d))
      /\ FailedAt(c) # FailedAt(d) => ~StartsWith(result[c].val, MsgPrefix(result[d].val))

\* One call failed creating the directory, the other creating the file.
C7_Witness ==
  \E c \in Calls, d \in Calls :
    /\ FailedAt(c) = "mkdir"
    /\ FailedAt(d) = "create"

\* ------------------------------------------------------------------- C8
\* C8: on Windows, macOS and Linux the open step either spawns the opener
\* and returns ok or, the spawn failing, returns an error with no opener; on
\* any other platform it spawns nothing and the call returns Ok with the
\* path; the call returns while the opener it spawned is still running.
C8_OpenDispatch ==
  /\ [](\A c \in Calls :
          /\ "open" \in Range(steps[c]) =>
               IF platform \in {"windows", "macos", "linux"}
               THEN \/ ReturnedOk(c) /\ opener[c] # "none"
                    \/ FailedAt(c) = "open" /\ opener[c] = "none"
               ELSE /\ ReturnedOk(c)
                    /\ opener[c] = "none"
                    /\ result[c].val = JoinedString(c)
          /\ opener[c] # "none" => ReturnedOk(c))
  /\ [][ \A c \in Calls :
           (pc[c] = "open" /\ pc'[c] = "done") => opener'[c] \in {"none", "running"} ]_vars

\* A call on an unsupported platform returned Ok without an opener.
C8_Witness ==
  \E c \in Calls :
    /\ platform = "other"
    /\ ReturnedOk(c)
    /\ opener[c] = "none"

\* ------------------------------------------------------------------- C9
\* C9: a started call whose server answers eventually returns, whether or
\* not any opener ever exits; a call waiting on a server that never answers
\* stays waiting; an opener's exit changes no call's position or result.
C9_ReturnsUnlessServerSilent ==
  /\ \A c \in Calls : (pc[c] # "idle" /\ responsive[c]) ~> Returned(c)
  /\ [][ /\ \A c \in Calls :
              (pc[c] = "send" /\ ~responsive[c]) => (pc'[c] = "send" /\ ~responsive'[c])
         /\ (\E c \in Calls : opener[c] = "running" /\ opener'[c] = "exited") =>
              (pc' = pc /\ result' = result) ]_vars

\* One call returned Ok with its opener still running while another is
\* stuck on a silent server.
C9_Witness ==
  \E c \in Calls, d \in Calls :
    /\ ReturnedOk(c)
    /\ opener[c] = "running"
    /\ pc[d] = "send"
    /\ ~responsive[d]

====
